---- MODULE Spec2Model ----
\* A model of psims/mzml/writer.py: the record counters and array preparation of
\* MzMLWriter (write_spectrum, write_chromatogram, _prepare_array) and the
\* indexed rewrite of MzMLWriter.format (MzMLIndexer, HashingFileBuffer,
\* IndexList, TagIndexerBase).
\*
\* Bytes are integers 0..255 and a bytes object is a sequence of them, so
\* that offsets, lengths and pattern matches are computed on the same data
\* the program computes them on.
EXTENDS Integers, Sequences, FiniteSets, TLC

\* ---------------------------------------------------------------- bounds
\* The largest number of <spectrum> elements of a document.
MaxSpectra == 3
\* The largest number of <chromatogram> elements of a document.
MaxChromatograms == 1

\* Python's None.
None == "None"

\* ------------------------------------------------------- byte literals
\* the header of MzMLIndexer.write_opening: the XML declaration, a newline, the
\* <indexedmzML ...> open tag with its three namespace attributes, a newline
Header ==
    <<60, 63, 120, 109, 108, 32, 118, 101, 114, 115, 105, 111, 110, 61, 34, 49, 46, 48,
      34, 32, 101, 110, 99, 111, 100, 105, 110, 103, 61, 34, 117, 116, 102, 45, 56, 34,
      63, 62, 10, 60, 105, 110, 100, 101, 120, 101, 100, 109, 122, 77, 76, 32, 120, 109,
      108, 110, 115, 61, 34, 104, 116, 116, 112, 58, 47, 47, 112, 115, 105, 46, 104, 117,
      112, 111, 46, 111, 114, 103, 47, 109, 115, 47, 109, 122, 109, 108, 34, 32, 120, 109,
      108, 110, 115, 58, 120, 115, 105, 61, 34, 104, 116, 116, 112, 58, 47, 47, 119, 119,
      119, 46, 119, 51, 46, 111, 114, 103, 47, 50, 48, 48, 49, 47, 88, 77, 76, 83, 99,
      104, 101, 109, 97, 45, 105, 110, 115, 116, 97, 110, 99, 101, 34, 32, 120, 115, 105,
      58, 115, 99, 104, 101, 109, 97, 76, 111, 99, 97, 116, 105, 111, 110, 61, 34, 104,
      116, 116, 112, 58, 47, 47, 112, 115, 105, 46, 104, 117, 112, 111, 46, 111, 114, 103,
      47, 109, 115, 47, 109, 122, 109, 108, 32, 104, 116, 116, 112, 58, 47, 47, 112, 115,
      105, 100, 101, 118, 46, 105, 110, 102, 111, 47, 102, 105, 108, 101, 115, 47, 109,
      115, 47, 109, 122, 77, 76, 47, 120, 115, 100, 47, 109, 122, 77, 76, 49, 46, 49, 46,
      50, 95, 105, 100, 120, 46, 120, 115, 100, 34, 62, 10>>
\* b'<spectrum '
SpectrumPattern ==
    <<60, 115, 112, 101, 99, 116, 114, 117, 109, 32>>
\* b'<chromatogram '
ChromatogramPattern ==
    <<60, 99, 104, 114, 111, 109, 97, 116, 111, 103, 114, 97, 109, 32>>
\* b'    <index name="'
IndexOpenHead ==
    <<32, 32, 32, 32, 60, 105, 110, 100, 101, 120, 32, 110, 97, 109, 101, 61, 34>>
\* b'">\n'
IndexOpenTail ==
    <<34, 62, 10>>
\* b'      <offset idRef="'
OffsetHead ==
    <<32, 32, 32, 32, 32, 32, 60, 111, 102, 102, 115, 101, 116, 32, 105, 100, 82, 101,
      102, 61, 34>>
\* b'">'
OffsetMid ==
    <<34, 62>>
\* b'</offset>\n'
OffsetTail ==
    <<60, 47, 111, 102, 102, 115, 101, 116, 62, 10>>
\* b'    </index>\n'
IndexClose ==
    <<32, 32, 32, 32, 60, 47, 105, 110, 100, 101, 120, 62, 10>>
\* b'  <indexList count="'
IndexListHead ==
    <<32, 32, 60, 105, 110, 100, 101, 120, 76, 105, 115, 116, 32, 99, 111, 117, 110, 116,
      61, 34>>
\* b'">\n'
IndexListTail ==
    <<34, 62, 10>>
\* b'  </indexList>\n'
IndexListClose ==
    <<32, 32, 60, 47, 105, 110, 100, 101, 120, 76, 105, 115, 116, 62, 10>>
\* b'  <indexListOffset>'
IndexListOffsetOpen ==
    <<32, 32, 60, 105, 110, 100, 101, 120, 76, 105, 115, 116, 79, 102, 102, 115, 101, 116,
      62>>
\* b'</indexListOffset>\n'
IndexListOffsetClose ==
    <<60, 47, 105, 110, 100, 101, 120, 76, 105, 115, 116, 79, 102, 102, 115, 101, 116, 62,
      10>>
\* b'  <fileChecksum>'
ChecksumOpen ==
    <<32, 32, 60, 102, 105, 108, 101, 67, 104, 101, 99, 107, 115, 117, 109, 62>>
\* b'</fileChecksum>\n'
ChecksumClose ==
    <<60, 47, 102, 105, 108, 101, 67, 104, 101, 99, 107, 115, 117, 109, 62, 10>>
\* b'</indexedmzML>'
RootClose ==
    <<60, 47, 105, 110, 100, 101, 120, 101, 100, 109, 122, 77, 76, 62>>
\* b'id'
IdKey ==
    <<105, 100>>
\* b'  '
Indent ==
    <<32, 32>>
\* b'\n'
Newline ==
    <<10>>
\* ------------------------------------------------- bytes and formatting
RECURSIVE Concat(_)
\* b''.join(chunks)
Concat(chunks) ==
    IF chunks = <<>> THEN <<>> ELSE Head(chunks) \o Concat(Tail(chunks))

\* data[i:] of Python, for a 1-based first position i.
From(data, i) == SubSeq(data, i, Len(data))

\* Whether data holds pat at the 1-based position i.
StartsWithAt(data, pat, i) ==
    /\ i >= 1
    /\ i + Len(pat) - 1 <= Len(data)
    /\ SubSeq(data, i, i + Len(pat) - 1) = pat

\* The least element of a non-empty set of integers.
Min(S) == CHOOSE x \in S : \A y \in S : x <= y

\* re.compile(pat).search(data) for a literal pattern: the 1-based position
\* of the leftmost occurrence (match.start() + 1), 0 when there is none.
Search(pat, data) ==
    LET hits == {i \in 1..(Len(data) - Len(pat) + 1) : StartsWithAt(data, pat, i)}
    IN  IF hits = {} THEN 0 ELSE Min(hits)

RECURSIVE FormatInt(_)
\* "{:d}".format(n).encode("utf-8") for n >= 0
FormatInt(n) ==
    IF n < 10 THEN <<48 + n>> ELSE FormatInt(n \div 10) \o <<48 + (n % 10)>>

HexDigit(d) == IF d < 10 THEN 48 + d ELSE 87 + d

\* The running digest. sha1 is modelled by a 16-bit polynomial hash of the
\* bytes folded so far, in order: it depends on every byte and on their
\* order, which is what the checks below rest on.
ChecksumInit == 40503

\* One byte folded into the digest state h.
ChecksumStep(h, b) == (h * 31 + b) % 65536

RECURSIVE ChecksumUpdate(_, _)
\* checksum.update(data): the bytes of data folded in, first to last. The
\* fold is written by halves, which gives the same value; the test of h
\* makes the state of the first half a value before the second is folded.
ChecksumUpdate(h, data) ==
    IF h < 0 \/ data = <<>> THEN h
    ELSE IF Len(data) = 1 THEN ChecksumStep(h, data[1])
    ELSE LET half == Len(data) \div 2
         IN  ChecksumUpdate(ChecksumUpdate(h, SubSeq(data, 1, half)),
                            SubSeq(data, half + 1, Len(data)))

\* checksum.hexdigest().encode('utf-8'): 40 lower-case hex digits.
HexDigest(h) ==
    [i \in 1..36 |-> 48] \o
    << HexDigit(h \div 4096), HexDigit((h \div 256) % 16),
       HexDigit((h \div 16) % 16), HexDigit(h % 16) >>

\* ------------------------------------------------------ TagIndexerBase
\* \s and ["'] of attr_pattern, on bytes.
IsSpace(b) == b \in {9, 10, 11, 12, 13, 32}
IsQuote(b) == b \in {34, 39}

\* The last position of the run of non-whitespace bytes that starts at p.
RunEnd(data, p) ==
    LET stops == {q \in (p + 1)..Len(data) : IsSpace(data[q])}
    IN  IF stops = {} THEN Len(data) ELSE Min(stops) - 1

\* The last position of the run of non-quote bytes that starts at v.
ValueEnd(data, v) ==
    LET stops == {q \in (v + 1)..Len(data) : IsQuote(data[q])}
    IN  IF stops = {} THEN Len(data) ELSE Min(stops) - 1

\* Whether (\S+)=["']([^"']+)["'] matches with its key ending at position k.
AttrMatchesWithKeyEnd(data, k) ==
    /\ k + 3 <= Len(data)
    /\ data[k + 1] = 61
    /\ IsQuote(data[k + 2])
    /\ ~IsQuote(data[k + 3])
    /\ ValueEnd(data, k + 3) + 1 <= Len(data)

RECURSIVE AttrKeyEnd(_, _, _)
\* \S+ is greedy: the longest key from p that lets the rest match; 0 if none.
AttrKeyEnd(data, p, k) ==
    IF k < p THEN 0
    ELSE IF AttrMatchesWithKeyEnd(data, k) THEN k
    ELSE AttrKeyEnd(data, p, k - 1)

RECURSIVE AttrFindAll(_, _)
\* The match whose key is data[p..k] and whose value ends at w, and the
\* matches after it.
AttrMatched(data, p, k, w) ==
    << <<SubSeq(data, p, k), SubSeq(data, k + 3, w)>> >>
        \o AttrFindAll(data, w + 2)

\* The matches from p on, p starting a run whose longest key ends at k
\* (0: no match starts at p).
AttrFindFrom(data, p, k) ==
    IF k = 0 THEN AttrFindAll(data, p + 1)
    ELSE AttrMatched(data, p, k, ValueEnd(data, k + 3))

\* attr_pattern.findall(data) from position p: the (key, value) pairs of
\* the non-overlapping matches, leftmost first.
AttrFindAll(data, p) ==
    IF p > Len(data) THEN <<>>
    ELSE IF IsSpace(data[p]) THEN AttrFindAll(data, p + 1)
    ELSE AttrFindFrom(data, p, AttrKeyEnd(data, p, RunEnd(data, p)))

\* A dict is the sequence of its (key, value) pairs in insertion order
\* (OrderedDict; the order of a plain dict is not used).
DictHas(d, k) == \E i \in 1..Len(d) : d[i][1] = k
DictGet(d, k) == d[CHOOSE i \in 1..Len(d) : d[i][1] = k][2]
\* A d[k] = v that moves a key already present to the end (del, then set).
DictSetMovesToEnd(d, k, v) ==
    Append(SelectSeq(d, LAMBDA e : e[1] # k), <<k, v>>)

\* d[k] = v: a key already present keeps its position.
DictSet(d, k, v) ==
    IF DictHas(d, k)
    THEN [i \in 1..Len(d) |-> IF d[i][1] = k THEN <<k, v>> ELSE d[i]]
    ELSE Append(d, <<k, v>>)

RECURSIVE DictOf(_)
\* dict(pairs)
DictOf(pairs) ==
    IF pairs = <<>> THEN <<>>
    ELSE LET n == Len(pairs)
         IN  DictSet(DictOf(SubSeq(pairs, 1, n - 1)), pairs[n][1], pairs[n][2])

\* TagIndexerBase.__init__
TagIndexer(name, pattern) == [name |-> name, pattern |-> pattern, index |-> <<>>]

\* b'spectrum'
SpectrumName ==
    <<115, 112, 101, 99, 116, 114, 117, 109>>
\* b'chromatogram'
ChromatogramName ==
    <<99, 104, 114, 111, 109, 97, 116, 111, 103, 114, 97, 109>>
SpectrumIndexer == TagIndexer(SpectrumName, SpectrumPattern)
ChromatogramIndexer == TagIndexer(ChromatogramName, ChromatogramPattern)

\* A scan that records the position of the chunk, not of the match in it.
ScanOffsetOfChunk(distance, m) == distance

\* The position scan records for a match at the 1-based position m.
ScanOffset(distance, m) == distance + (m - 1)

\* scan, given its match at the 1-based position m (0: no match) and the
\* attrs it read: the indexer after the call, what it returns, and whether
\* attrs[b'id'] raised KeyError (the indexer is then unchanged).
ScanMatch(indexer, distance, m, attrs) ==
    IF m = 0
    THEN [indexer |-> indexer, matched |-> FALSE, raised |-> FALSE]
    ELSE IF ~DictHas(attrs, IdKey)
    THEN [indexer |-> indexer, matched |-> TRUE, raised |-> TRUE]
    ELSE [indexer |-> [indexer EXCEPT !.index =
                          DictSet(@, DictGet(attrs, IdKey),
                                  [offset |-> ScanOffset(distance, m),
                                   attrs |-> attrs])],
          matched |-> TRUE, raised |-> FALSE]

\* TagIndexerBase.scan
TagIndexerScan(indexer, data, distance) ==
    ScanMatch(indexer, distance, Search(indexer.pattern, data),
              DictOf(AttrFindAll(data, 1)))

RECURSIVE IndexListTestFrom(_, _, _, _)
IndexListTestFrom(indexers, i, data, distance) ==
    IF i > Len(indexers)
    THEN [indexers |-> indexers, result |-> FALSE, raised |-> FALSE]
    ELSE LET r == TagIndexerScan(indexers[i], data, distance)
         IN  IF r.raised
             THEN [indexers |-> indexers, result |-> FALSE, raised |-> TRUE]
             ELSE IF r.matched
             THEN [indexers |-> [indexers EXCEPT ![i] = r.indexer],
                   result |-> TRUE, raised |-> FALSE]
             ELSE IndexListTestFrom(indexers, i + 1, data, distance)

\* IndexList.test: the indexers in registration order, returning at the
\* first one that matches.
IndexListTest(indexers, data, distance) ==
    IndexListTestFrom(indexers, 1, data, distance)

\* A __len__ that counts every registered indexer.
IndexListLenOfAll(indexers) == Len(indexers)

\* IndexList.__len__: the indexers that hold an entry.
IndexListLen(indexers) ==
    Cardinality({i \in 1..Len(indexers) : Len(indexers[i].index) > 0})

\* --------------------------------------- HashingFileBuffer, MzMLIndexer
\* HashingFileBuffer.__init__ and MzMLIndexer.__init__
NewIndexer ==
    [buffer |-> <<>>, checksum |-> ChecksumInit, accumulator |-> 0,
     indices |-> <<SpectrumIndexer, ChromatogramIndexer>>]

\* A write that does not fold the data into the digest.
HashingFileBufferWriteUnhashed(self, data) ==
    [self EXCEPT !.buffer = @ \o data, !.accumulator = @ + Len(data)]

\* HashingFileBuffer.write: the object after the call; the call returns its
\* accumulator.
HashingFileBufferWrite(self, data) ==
    [self EXCEPT !.buffer = @ \o data,
                 !.accumulator = @ + Len(data),
                 !.checksum = ChecksumUpdate(@, data)]

\* A run of writes: the indexer, the chunks written so far (a record of the
\* calls, not a field of the program), the value the last write returned,
\* and whether a write raised (no later write of the run then happens).
Run(self, log, ret) == [self |-> self, log |-> log, ret |-> ret, raised |-> FALSE]

\* A write that puts the data in the buffer before the indexers test it.
MzMLIndexerWriteBufferFirst(st, data) ==
    IF st.raised THEN st
    ELSE LET after == HashingFileBufferWrite(st.self, data)
             t == IndexListTest(after.indices, data, st.self.accumulator)
         IN  IF t.raised THEN [st EXCEPT !.self = after, !.raised = TRUE]
             ELSE [self |-> [after EXCEPT !.indices = t.indexers],
                   log |-> Append(st.log, data),
                   ret |-> after.accumulator, raised |-> FALSE]

\* MzMLIndexer.write
MzMLIndexerWrite(st, data) ==
    IF st.raised THEN st
    ELSE LET t == IndexListTest(st.self.indices, data, st.self.accumulator)
             after == HashingFileBufferWrite(
                          [st.self EXCEPT !.indices = t.indexers], data)
         IN  IF t.raised THEN [st EXCEPT !.raised = TRUE]
             ELSE [self |-> after, log |-> Append(st.log, data),
                   ret |-> after.accumulator, raised |-> FALSE]

RECURSIVE WriteAll(_, _)
WriteAll(st, chunks) ==
    IF chunks = <<>> THEN st
    ELSE WriteAll(MzMLIndexerWrite(st, Head(chunks)), Tail(chunks))

\* MzMLIndexer.write_opening
WriteOpening(st) == MzMLIndexerWrite(st, Header)

\* The chunk embed_source writes for one line of the document.
Indented(line) == Indent \o line \o Newline

\* b"b'"
ReprHead ==
    <<98, 39>>
\* b"'"
ReprTail ==
    <<39>>
\* "{}".format(ref_id) for the bytes ref_id: Python 2 gives the text, Python
\* 3 the repr b'...' (the ids of the model hold no quote or backslash).
FormatRef(ref_id, py) ==
    IF py = 2 THEN ref_id ELSE ReprHead \o ref_id \o ReprTail

\* The offset line TagIndexerBase.write writes for one item of its index.
OffsetLine(item, py) ==
    OffsetHead \o FormatRef(item[1], py) \o OffsetMid
        \o FormatInt(item[2].offset) \o OffsetTail

\* TagIndexerBase.write of the i-th indexer, through writer.write
TagIndexerWrite(st, i, py) ==
    LET ixr == st.self.indices[i]
        opened == MzMLIndexerWrite(
                      st, IndexOpenHead \o ixr.name \o IndexOpenTail)
        items == opened.self.indices[i].index
        listed == WriteAll(opened,
                           [j \in 1..Len(items) |-> OffsetLine(items[j], py)])
    IN  MzMLIndexerWrite(listed, IndexClose)

RECURSIVE WriteIndexes(_, _, _)
\* for index in self: if len(index) > 0: index.write(writer)
WriteIndexes(st, i, py) ==
    IF i > Len(st.self.indices) THEN st
    ELSE IF Len(st.self.indices[i].index) > 0
    THEN WriteIndexes(TagIndexerWrite(st, i, py), i + 1, py)
    ELSE WriteIndexes(st, i + 1, py)

\* IndexList.write_index_list
IndexListWriteIndexList(st, distance, py) ==
    LET offset == distance
        n == IndexListLen(st.self.indices)
        head == MzMLIndexerWrite(
                    st, IndexListHead \o FormatInt(n) \o IndexListTail)
        blocks == WriteIndexes(head, 1, py)
    IN  WriteAll(blocks,
                 << IndexListClose, IndexListOffsetOpen,
                    FormatInt(offset) \o IndexListOffsetClose >>)

\* MzMLIndexer.write_index_list
WriteIndexList(st, py) == IndexListWriteIndexList(st, st.self.accumulator, py)

\* A write_checksum that takes the digest before it writes the open tag.
WriteChecksumDigestFirst(st) ==
    LET digest == HexDigest(st.self.checksum)
        opened == MzMLIndexerWrite(st, ChecksumOpen)
    IN  MzMLIndexerWrite(MzMLIndexerWrite(opened, digest), ChecksumClose)

\* MzMLIndexer.write_checksum
WriteChecksum(st) ==
    LET opened == MzMLIndexerWrite(st, ChecksumOpen)
        digest == MzMLIndexerWrite(opened, HexDigest(opened.self.checksum))
    IN  MzMLIndexerWrite(digest, ChecksumClose)

\* MzMLIndexer.write_closing
WriteClosing(st) == MzMLIndexerWrite(st, RootClose)

\* ------------------------------------------------- the plain document
\* The document the ordinary write path left at the destination, as the tags
\* of its elements with their depths. The ids of its records are drawn from
\* Ids, or NoId for a record written without an id.
\* b'scan=1'
IdA ==
    <<115, 99, 97, 110, 61, 49>>
\* b'scan=2'
IdB ==
    <<115, 99, 97, 110, 61, 50>>
Ids == {IdA, IdB}
\* The id of a record written without one (id=None): no id attribute.
NoId == <<>>

\* b'<mzML>'
MzMLOpen ==
    <<60, 109, 122, 77, 76, 62>>
\* b'</mzML>'
MzMLClose ==
    <<60, 47, 109, 122, 77, 76, 62>>
\* b'<run>'
RunOpen ==
    <<60, 114, 117, 110, 62>>
\* b'</run>'
RunClose ==
    <<60, 47, 114, 117, 110, 62>>
\* b'<spectrumList count="'
SpectrumListHead ==
    <<60, 115, 112, 101, 99, 116, 114, 117, 109, 76, 105, 115, 116, 32, 99, 111, 117, 110,
      116, 61, 34>>
\* b'</spectrumList>'
SpectrumListClose ==
    <<60, 47, 115, 112, 101, 99, 116, 114, 117, 109, 76, 105, 115, 116, 62>>
\* b'<chromatogramList count="'
ChromatogramListHead ==
    <<60, 99, 104, 114, 111, 109, 97, 116, 111, 103, 114, 97, 109, 76, 105, 115, 116, 32,
      99, 111, 117, 110, 116, 61, 34>>
\* b'</chromatogramList>'
ChromatogramListClose ==
    <<60, 47, 99, 104, 114, 111, 109, 97, 116, 111, 103, 114, 97, 109, 76, 105, 115, 116,
      62>>
\* b'">'
TagEnd ==
    <<34, 62>>
\* b'"/>'
EmptyTagEnd ==
    <<34, 47, 62>>
\* b'id="'
IdAttr ==
    <<105, 100, 61, 34>>
\* b'index="'
IndexAttr ==
    <<105, 110, 100, 101, 120, 61, 34>>
\* b'" '
AttrSep ==
    <<34, 32>>
\* <spectrum id="..." index="i"/>, the tag of the record of index i
RecordTag(open, id, i) ==
    open \o (IF id = NoId THEN <<>> ELSE IdAttr \o id \o AttrSep)
         \o IndexAttr \o FormatInt(i) \o EmptyTagEnd

\* <spectrumList count="n"> with its records and its close tag
ListTags(head, close, open, ids, depth) ==
    IF ids = <<>>
    THEN << [depth |-> depth, tag |-> head \o FormatInt(0) \o EmptyTagEnd] >>
    ELSE << [depth |-> depth, tag |-> head \o FormatInt(Len(ids)) \o TagEnd] >>
         \o [i \in 1..Len(ids) |->
                [depth |-> depth + 1, tag |-> RecordTag(open, ids[i], i - 1)]]
         \o << [depth |-> depth, tag |-> close] >>

DocumentTags(d) ==
    << [depth |-> 0, tag |-> MzMLOpen], [depth |-> 1, tag |-> RunOpen] >>
    \o ListTags(SpectrumListHead, SpectrumListClose, SpectrumPattern,
                d.spectra, 2)
    \o ListTags(ChromatogramListHead, ChromatogramListClose,
                ChromatogramPattern, d.chromatograms, 2)
    \o << [depth |-> 1, tag |-> RunClose], [depth |-> 0, tag |-> MzMLClose] >>

\* The bytes of the plain document: its tags, with no white space between.
PlainDocument(d) ==
    LET tags == DocumentTags(d)
    IN  Concat([i \in 1..Len(tags) |-> tags[i].tag])

RECURSIVE Indentation(_)
Indentation(depth) ==
    IF depth = 0 THEN <<>> ELSE Indent \o Indentation(depth - 1)

\* etree.tostring(etree.parse(source), pretty_print=True).splitlines(): one
\* line per tag, indented by two spaces per level.
PrettyLines(d) ==
    LET tags == DocumentTags(d)
    IN  [i \in 1..Len(tags) |-> Indentation(tags[i].depth) \o tags[i].tag]

RECURSIVE SeqsUpTo(_, _)
\* The sequences of at most n elements of S.
SeqsUpTo(S, n) ==
    IF n = 0 THEN {<<>>}
    ELSE LET shorter == SeqsUpTo(S, n - 1)
         IN  shorter \cup {Append(s, x) : s \in shorter, x \in S}

Documents ==
    [spectra : SeqsUpTo(Ids \cup {NoId}, MaxSpectra),
     chromatograms : SeqsUpTo(Ids \cup {NoId}, MaxChromatograms)]

\* ------------------------------------------------------------ MzMLWriter
\* An array is modelled by its number of elements, len(array): its values
\* go to encode_array, which is outside this module. NoneInt is Python's
\* None where the other values are integers.
NoneInt == -1
\* The largest number of records one writer writes.
MaxRecords == 3

MZ_ARRAY == "m/z array"
INTENSITY_ARRAY == "intensity array"
CHARGE_ARRAY == "charge array"
TIME_ARRAY == "time array"
NON_STANDARD_ARRAY == "non-standard data array"
ARRAY_TYPES ==
    {"m/z array", "intensity array", "charge array", "signal to noise array",
     "time array", "wavelength array", "flow rate array", "pressure array",
     "temperature array", "mean drift time array", "mean charge array",
     "resolution array", "baseline array"}
COMPRESSION_ZLIB == "zlib compression"

\* binary_encoding.encoding_map: the widths it knows and their dtypes.
EncodingKnown(encoding) == encoding \in {32, 64}
EncodingMap(encoding) == IF encoding = 32 THEN "float32" ELSE "float64"
\* binary_encoding.dtype_to_encoding
DtypeToEncoding(dtype) ==
    IF dtype = "float32" THEN "32-bit float" ELSE "64-bit float"

\* array_length of the BinaryDataArray _prepare_array builds
PreparedArrayLength(array, default_array_length) ==
    LET override_length ==
            default_array_length # NoneInt /\ array # default_array_length
    IN  IF override_length THEN array ELSE NoneInt

\* MzMLWriter._prepare_array: the BinaryDataArray it returns; raised when
\* encoding_map[_encoding] raises KeyError.
PrepareArray(array, encoding, compression, array_type, default_array_length) ==
    IF ~EncodingKnown(encoding)
    THEN [raised |-> "KeyError"]
    ELSE [raised |-> None,
          array_type |-> array_type,
          length |-> array,
          array_length |-> PreparedArrayLength(array, default_array_length),
          params |->
              (IF array_type # None
               THEN <<array_type>> \o
                    (IF array_type \notin ARRAY_TYPES
                     THEN <<NON_STANDARD_ARRAY>> ELSE <<>>)
               ELSE <<>>)
              \o <<compression, DtypeToEncoding(EncodingMap(encoding))>>]

\* The first exception among the steps of a call, None when none raised.
FirstRaised(steps) ==
    IF \A i \in 1..Len(steps) : steps[i].raised = None THEN None
    ELSE steps[Min({i \in 1..Len(steps) : steps[i].raised # None})].raised

\* The standard arrays of a record that are given (is not None), prepared
\* with no default_array_length.
StandardArrays(given, encoding, compression) ==
    LET present == SelectSeq(given, LAMBDA g : g.array # NoneInt)
    IN  [i \in 1..Len(present) |->
            PrepareArray(present[i].array, encoding, compression,
                         present[i].array_type, NoneInt)]

\* write_spectrum, lines 348-373: array_list, or the exception raised.
\* other_arrays is a sequence of (array_type, array) pairs.
SpectrumArrays(mz_array, intensity_array, charge_array, other_arrays, encoding, compression) ==
    IF mz_array = NoneInt
    THEN [raised |-> "TypeError", array_list |-> <<>>]
    ELSE LET default_array_length == mz_array
             standard ==
                 StandardArrays(
                     << [array_type |-> MZ_ARRAY, array |-> mz_array],
                        [array_type |-> INTENSITY_ARRAY,
                         array |-> intensity_array],
                        [array_type |-> CHARGE_ARRAY, array |-> charge_array] >>,
                     encoding, compression)
             others ==
                 [i \in 1..Len(other_arrays) |->
                     IF other_arrays[i][1] = None
                     THEN [raised |-> "ValueError"]
                     ELSE PrepareArray(other_arrays[i][2], encoding,
                                       compression, other_arrays[i][1],
                                       default_array_length)]
         IN  [raised |-> FirstRaised(standard \o others),
              array_list |-> standard \o others]

\* write_chromatogram, lines 419-440
ChromatogramArrays(time_array, intensity_array, other_arrays, encoding, compression) ==
    IF time_array = NoneInt
    THEN [raised |-> "TypeError", array_list |-> <<>>]
    ELSE LET default_array_length == time_array
             standard ==
                 StandardArrays(
                     << [array_type |-> TIME_ARRAY, array |-> time_array],
                        [array_type |-> INTENSITY_ARRAY,
                         array |-> intensity_array] >>,
                     encoding, compression)
             others ==
                 [i \in 1..Len(other_arrays) |->
                     PrepareArray(other_arrays[i][2], encoding, compression,
                                  other_arrays[i][1], default_array_length)]
         IN  [raised |-> FirstRaised(standard \o others),
              array_list |-> standard \o others]

\* A Python value that is not a text of this module carries its type:
\* None, an int n, the float n.0, a str of the given characters, a list.
NoneValue == [type |-> "NoneType"]
IntValue(n) == [type |-> "int", value |-> n]
FloatValue(n) == [type |-> "float", value |-> n]
StrValue(chars) == [type |-> "str", chars |-> chars]
ListValue(items) == [type |-> "list", items |-> items]

POSITIVE_SCAN == "positive scan"
NEGATIVE_SCAN == "negative scan"
\* 'positive', the text looked for in polarity
PositiveText ==
    <<112, 111, 115, 105, 116, 105, 118, 101>>
\* 'negative'
NegativeText ==
    <<110, 101, 103, 97, 116, 105, 118, 101>>

\* x in params, for a list of texts
InList(x, params) == \E i \in 1..Len(params) : params[i] = x

\* write_spectrum, lines 324-337: the marker polarity is replaced by (None
\* for no marker); raised when 'positive' in polarity raises TypeError, as
\* it does for a value that is neither an int nor a container.
NormalisedPolarity(polarity) ==
    IF polarity.type = "int"
    THEN [raised |-> None,
          polarity |-> IF polarity.value > 0 THEN POSITIVE_SCAN
                       ELSE IF polarity.value < 0 THEN NEGATIVE_SCAN
                       ELSE None]
    ELSE IF polarity.type = "str"
    THEN [raised |-> None,
          polarity |-> IF Search(PositiveText, polarity.chars) # 0
                       THEN POSITIVE_SCAN
                       ELSE IF Search(NegativeText, polarity.chars) # 0
                       THEN NEGATIVE_SCAN
                       ELSE None]
    ELSE [raised |-> "TypeError", polarity |-> None]

\* write_spectrum, lines 302-305 and 324-346: the params of the record, or
\* the exception raised.
SpectrumParams(params, polarity, centroided) ==
    LET given == IF params.type = "NoneType" THEN <<>> ELSE params.items
        peak_mode == IF centroided THEN "centroid spectrum"
                     ELSE "profile spectrum"
        marked ==
            IF polarity.type = "NoneType"
            THEN [raised |-> None, params |-> given]
            ELSE LET n == NormalisedPolarity(polarity)
                 IN  IF n.raised # None
                     THEN [raised |-> n.raised, params |-> given]
                     ELSE IF ~InList(n.polarity, given) /\ n.polarity # None
                     THEN [raised |-> None,
                           params |-> Append(given, n.polarity)]
                     ELSE [raised |-> None, params |-> given]
    IN  IF marked.raised # None THEN marked
        ELSE [raised |-> None, params |-> Append(marked.params, peak_mode)]

\* The arguments the calls are made with.
Arrays == {3, 5}
OptionalArrays == Arrays \cup {NoneInt}
ArrayTypeArgs == {None, "signal to noise array", "ion mobility array"}
OtherArrayArgs ==
    {<<>>} \cup {<< <<t, a>> >> : t \in ArrayTypeArgs, a \in Arrays}
EncodingArgs == {32, 16}
\* 'positive scan'
PositiveScanText ==
    <<112, 111, 115, 105, 116, 105, 118, 101, 32, 115, 99, 97, 110>>
\* 'negative scan'
NegativeScanText ==
    <<110, 101, 103, 97, 116, 105, 118, 101, 32, 115, 99, 97, 110>>
\* 'negative ion mode'
NegativeIonText ==
    <<110, 101, 103, 97, 116, 105, 118, 101, 32, 105, 111, 110, 32, 109, 111, 100, 101>>
\* 'Positive'
UnknownText ==
    <<80, 111, 115, 105, 116, 105, 118, 101>>
PolarityArgs ==
    {NoneValue, IntValue(2), IntValue(0), IntValue(-1), FloatValue(1),
     StrValue(PositiveScanText), StrValue(NegativeScanText),
     StrValue(NegativeIonText), StrValue(UnknownText)}
ParamsArgs ==
    {NoneValue, ListValue(<<>>), ListValue(<<POSITIVE_SCAN>>),
     ListValue(<<NEGATIVE_SCAN, "MS1 spectrum">>)}

\* ---------------------------------------------------------------- state
VARIABLES
    pc,           \* where format() stands: the next step of build/overwrite
    doc,          \* the plain document written before format() is called
    dest,         \* the bytes at the destination (the output file)
    closed,       \* self.outfile.closed
    python,       \* the major version of the interpreter, 2 or 3
    fh,           \* format's fh: "path" (outfile.name) or "stream" (outfile)
    content,      \* embed_source's lines not yet written
    indexer,      \* the MzMLIndexer: buffer, checksum, accumulator, indices
    written,      \* the chunks written through the indexer, in call order
    ret,          \* what the last write returned
    stages,       \* the steps of build/overwrite completed, in order
    failedIn,     \* the step an exception left, None when none did
    spectrum_count,      \* MzMLWriter.spectrum_count
    chromatogram_count,  \* MzMLWriter.chromatogram_count
    spectrum_indices,      \* the index of each spectrum written, in call order
    chromatogram_indices,  \* the same for the chromatograms
    record,       \* the record written last, of kind None before the first
    args,         \* polarity and params of the last write_spectrum call
    raised        \* the exception the last write_* call raised, or None

indexVars ==
    <<pc, doc, dest, closed, python, fh, content, indexer, written, ret,
      stages, failedIn>>

writerVars ==
    <<spectrum_count, chromatogram_count, spectrum_indices,
      chromatogram_indices, record, args, raised>>

vars == <<indexVars, writerVars>>

BuildSteps ==
    {"write_opening", "embed_source", "embed_lines", "write_index_list",
     "write_checksum", "write_closing"}
OverwriteSteps == {"overwrite", "overwrite_write"}

\* MzMLWriter.__init__
InitWriter ==
    /\ spectrum_count = 0
    /\ chromatogram_count = 0
    /\ spectrum_indices = <<>>
    /\ chromatogram_indices = <<>>
    /\ record = [kind |-> None]
    /\ args = [kind |-> None]
    /\ raised = None

InitIndexer ==
    /\ pc = "draft"
    /\ dest = PlainDocument(doc)
    /\ fh = None
    /\ content = <<>>
    /\ indexer = NewIndexer
    /\ written = <<>>
    /\ ret = 0
    /\ stages = <<>>
    /\ failedIn = None

\* The writer is constructed and a plain document is at the destination.
Init ==
    /\ doc \in Documents
    /\ closed \in BOOLEAN
    /\ python \in {2, 3}
    /\ InitIndexer
    /\ InitWriter

\* The variables a run of writes leaves: on to the step next with the
\* stages of done completed, or out of format() when a write raised.
Wrote(st, done, next) ==
    /\ indexer' = st.self
    /\ written' = st.log
    /\ ret' = st.ret
    /\ IF st.raised
       THEN /\ pc' = "raised"
            /\ failedIn' = pc
            /\ stages' = stages
       ELSE /\ pc' = next
            /\ failedIn' = failedIn
            /\ stages' = stages \o done

\* MzMLWriter.format(index=True) up to the call of indexer.build()
Format ==
    /\ pc = "draft"
    /\ fh' = IF closed THEN "path" ELSE "stream"
    /\ indexer' = NewIndexer
    /\ pc' = "write_opening"
    /\ UNCHANGED writerVars
    /\ UNCHANGED <<doc, dest, closed, python, content, written, ret, stages,
                   failedIn>>

\* build: self.write_opening()
StepWriteOpening ==
    /\ pc = "write_opening"
    /\ Wrote(WriteOpening(Run(indexer, written, ret)), <<"write_opening">>,
             "embed_source")
    /\ UNCHANGED writerVars
    /\ UNCHANGED <<doc, dest, closed, python, fh, content>>

\* embed_source: the document is parsed and printed into its lines
StepEmbedParse ==
    /\ pc = "embed_source"
    /\ content' = PrettyLines(doc)
    /\ pc' = "embed_lines"
    /\ UNCHANGED writerVars
    /\ UNCHANGED <<doc, dest, closed, python, fh, indexer, written, ret,
                   stages, failedIn>>

\* embed_source: one turn of its loop; the stage ends with the last line
StepEmbedLine ==
    /\ pc = "embed_lines"
    /\ content # <<>>
    /\ content' = Tail(content)
    /\ IF Len(content) = 1
       THEN Wrote(MzMLIndexerWrite(Run(indexer, written, ret),
                                   Indented(Head(content))),
                  <<"embed_source">>, "write_index_list")
       ELSE Wrote(MzMLIndexerWrite(Run(indexer, written, ret),
                                   Indented(Head(content))),
                  <<>>, "embed_lines")
    /\ UNCHANGED writerVars
    /\ UNCHANGED <<doc, dest, closed, python, fh>>

\* A build that goes from the index list to the root close tag, with no
\* checksum.
StepWriteIndexListThenClosing ==
    /\ pc = "write_index_list"
    /\ Wrote(WriteIndexList(Run(indexer, written, ret), python),
             <<"write_index_list">>, "write_closing")
    /\ UNCHANGED writerVars
    /\ UNCHANGED <<doc, dest, closed, python, fh, content>>

\* build: self.write_index_list()
StepWriteIndexList ==
    /\ pc = "write_index_list"
    /\ Wrote(WriteIndexList(Run(indexer, written, ret), python),
             <<"write_index_list">>, "write_checksum")
    /\ UNCHANGED writerVars
    /\ UNCHANGED <<doc, dest, closed, python, fh, content>>

\* build: self.write_checksum()
StepWriteChecksum ==
    /\ pc = "write_checksum"
    /\ Wrote(WriteChecksum(Run(indexer, written, ret)), <<"write_checksum">>,
             "write_closing")
    /\ UNCHANGED writerVars
    /\ UNCHANGED <<doc, dest, closed, python, fh, content>>

\* build: self.write_closing()
StepWriteClosing ==
    /\ pc = "write_closing"
    /\ Wrote(WriteClosing(Run(indexer, written, ret)), <<"write_closing">>,
             "overwrite")
    /\ UNCHANGED writerVars
    /\ UNCHANGED <<doc, dest, closed, python, fh, content>>

\* overwrite: self.source.seek(0) on a stream, open(self.source, 'wb') on a
\* path, which truncates the file
StepOverwriteOpen ==
    /\ pc = "overwrite"
    /\ dest' = IF fh = "path" THEN <<>> ELSE dest
    /\ pc' = "overwrite_write"
    /\ UNCHANGED writerVars
    /\ UNCHANGED <<doc, closed, python, fh, content, indexer, written, ret,
                   stages, failedIn>>

\* The file after data is written at its position 0.
WrittenAtStart(file, data) ==
    data \o SubSeq(file, Len(data) + 1, Len(file))

\* overwrite: fh.write(self.buffer.getvalue()); format then returns
StepOverwriteWrite ==
    /\ pc = "overwrite_write"
    /\ dest' = WrittenAtStart(dest, indexer.buffer)
    /\ stages' = Append(stages, "overwrite")
    /\ pc' = "done"
    /\ UNCHANGED writerVars
    /\ UNCHANGED <<doc, closed, python, fh, content, indexer, written, ret,
                   failedIn>>

\* A format that runs overwrite when build raised (as in a finally clause).
MemoryErrorThenOverwrite ==
    /\ pc \in BuildSteps \cup OverwriteSteps
    /\ failedIn' = pc
    /\ pc' = "aborted"
    /\ dest' = WrittenAtStart(IF fh = "path" THEN <<>> ELSE dest, indexer.buffer)
    /\ UNCHANGED writerVars
    /\ UNCHANGED <<doc, closed, python, fh, content, indexer, written, ret,
                   stages>>

\* MemoryError raised in a step of build or overwrite, before the step
\* changed anything: format's except clause swallows it and format returns.
MemoryErrorRaised ==
    /\ pc \in BuildSteps \cup OverwriteSteps
    /\ failedIn' = pc
    /\ pc' = "aborted"
    /\ UNCHANGED writerVars
    /\ UNCHANGED <<doc, dest, closed, python, fh, content, indexer, written,
                   ret, stages>>


\* An index read after the count is advanced.
AssignedIndexAfterIncrement(count) == count + 1

\* index = self.spectrum_count (self.chromatogram_count): the index of a
\* record is the count read before it is advanced.
AssignedIndex(count) == count

\* MzMLWriter.write_spectrum
WriteSpectrum(mz_array, intensity_array, charge_array, other_arrays, encoding, polarity, centroided, params) ==
    /\ spectrum_count + chromatogram_count < MaxRecords
    /\ args' = [kind |-> "spectrum", polarity |-> polarity, params |-> params]
    /\ LET marked == SpectrumParams(params, polarity, centroided)
           prepared == SpectrumArrays(mz_array, intensity_array, charge_array,
                                      other_arrays, encoding, COMPRESSION_ZLIB)
       IN  IF marked.raised # None \/ prepared.raised # None
           THEN /\ raised' = IF marked.raised # None THEN marked.raised
                             ELSE prepared.raised
                /\ UNCHANGED <<spectrum_count, chromatogram_count,
                             spectrum_indices, chromatogram_indices, record>>
           ELSE /\ raised' = None
                /\ spectrum_count' = spectrum_count + 1
                /\ record' = [kind |-> "spectrum",
                              index |-> AssignedIndex(spectrum_count),
                              default_array_length |-> mz_array,
                              array_list |-> prepared.array_list,
                              params |-> marked.params]
                /\ spectrum_indices' =
                       Append(spectrum_indices, AssignedIndex(spectrum_count))
                /\ UNCHANGED <<chromatogram_count, chromatogram_indices>>
    /\ UNCHANGED indexVars

\* MzMLWriter.write_chromatogram
WriteChromatogram(time_array, intensity_array, other_arrays, encoding) ==
    /\ spectrum_count + chromatogram_count < MaxRecords
    /\ LET prepared == ChromatogramArrays(time_array, intensity_array,
                                          other_arrays, encoding,
                                          COMPRESSION_ZLIB)
       IN  IF prepared.raised # None
           THEN /\ raised' = prepared.raised
                /\ UNCHANGED <<spectrum_count, chromatogram_count,
                             spectrum_indices, chromatogram_indices, record>>
           ELSE /\ raised' = None
                /\ chromatogram_count' = chromatogram_count + 1
                /\ record' = [kind |-> "chromatogram",
                              index |-> AssignedIndex(chromatogram_count),
                              default_array_length |-> time_array,
                              array_list |-> prepared.array_list]
                /\ chromatogram_indices' =
                       Append(chromatogram_indices,
                              AssignedIndex(chromatogram_count))
                /\ UNCHANGED <<spectrum_count, spectrum_indices>>
    /\ UNCHANGED args
    /\ UNCHANGED indexVars

NextWriter ==
    \/ \E mz_array \in OptionalArrays, intensity_array \in OptionalArrays,
          charge_array \in OptionalArrays, other_arrays \in OtherArrayArgs,
          encoding \in EncodingArgs :
          WriteSpectrum(mz_array, intensity_array, charge_array, other_arrays,
                        encoding, StrValue(PositiveScanText), TRUE, NoneValue)
    \/ \E time_array \in OptionalArrays, intensity_array \in OptionalArrays,
          other_arrays \in OtherArrayArgs, encoding \in EncodingArgs :
          WriteChromatogram(time_array, intensity_array, other_arrays, encoding)

\* The record calls of one writer, with an empty document at the destination.
InitRecords ==
    /\ doc = [spectra |-> <<>>, chromatograms |-> <<>>]
    /\ closed = FALSE
    /\ python = 3
    /\ InitIndexer
    /\ InitWriter

SpecWriter == InitRecords /\ [][NextWriter]_vars

\* The write_spectrum calls of one writer with every polarity and params,
\* their arrays being ones that are encoded.
NextPolarity ==
    \E mz_array \in Arrays, polarity \in PolarityArgs, centroided \in BOOLEAN,
       params \in ParamsArgs :
       WriteSpectrum(mz_array, mz_array, NoneInt, <<>>, 32, polarity,
                     centroided, params)

SpecPolarity == InitRecords /\ [][NextPolarity]_vars

\* The indexed rewrite of format(), from a plain document.
Next ==
    \/ Format
    \/ StepWriteOpening
    \/ StepEmbedParse
    \/ StepEmbedLine
    \/ StepWriteIndexList
    \/ StepWriteChecksum
    \/ StepWriteClosing
    \/ StepOverwriteOpen
    \/ StepOverwriteWrite
    \/ MemoryErrorRaised

Spec == Init /\ [][Next]_vars

\* ------------------------------------------------- writes to MzMLIndexer
\* The largest number of chunks written to one MzMLIndexer.
MaxWrites == 3

\* b'</spectrum>'
SpectrumClose ==
    <<60, 47, 115, 112, 101, 99, 116, 114, 117, 109, 62>>

\* <spectrum id="..."><chromatogram id="..." index="0"/></spectrum>: the one
\* line etree.tostring prints for an element it does not indent.
NestedTag(id) ==
    SpectrumPattern \o IdAttr \o id \o TagEnd
        \o RecordTag(ChromatogramPattern, id, 0) \o SpectrumClose

\* The chunks written: a line with a spectrum, with a chromatogram, with
\* both, or with neither.
Chunks ==
    {Indented(RecordTag(SpectrumPattern, id, 0)) : id \in Ids \cup {NoId}}
    \cup {Indented(RecordTag(ChromatogramPattern, id, 0)) :
             id \in Ids \cup {NoId}}
    \cup {Indented(NestedTag(id)) : id \in Ids}
    \cup {Indented(RunOpen)}

\* A new MzMLIndexer, nothing written to it.
InitWrites ==
    /\ doc = [spectra |-> <<>>, chromatograms |-> <<>>]
    /\ closed = FALSE
    /\ python = 3
    /\ InitIndexer
    /\ InitWriter

\* MzMLIndexer.write(data), called on the indexer: failedIn is "write" when
\* the call raised, None when it returned.
IndexerWrite(data) ==
    /\ Len(written) < MaxWrites
    /\ LET st == MzMLIndexerWrite(Run(indexer, written, ret), data)
       IN  /\ indexer' = st.self
           /\ written' = st.log
           /\ ret' = st.ret
           /\ failedIn' = IF st.raised THEN "write" ELSE None
    /\ UNCHANGED writerVars
    /\ UNCHANGED <<pc, doc, dest, closed, python, fh, content, stages>>

NextWrites == \E data \in Chunks : IndexerWrite(data)

SpecWrites == InitWrites /\ [][NextWrites]_vars

\* ---------------------------------------------------------------- claims
\* The file a reader of the result sees: the destination once format() has
\* returned from overwrite.
Finished == pc = "done"

RECURSIVE ParseInt(_)
\* int(digits) for a non-empty run of decimal digits
ParseInt(digits) ==
    IF Len(digits) = 1 THEN digits[1] - 48
    ELSE 10 * ParseInt(SubSeq(digits, 1, Len(digits) - 1))
         + (digits[Len(digits)] - 48)

\* The bytes of data from position i up to, not including, the next byte b.
Until(data, i, b) ==
    LET stops == {q \in i..Len(data) : data[q] = b}
    IN  IF stops = {} THEN From(data, i) ELSE SubSeq(data, i, Min(stops) - 1)

\* Whether file holds, at the 0-based byte position offset, the opening tag
\* of an element of the kind of pattern whose id attribute is xid.
OpensElementAt(file, offset, pattern, xid) ==
    /\ StartsWithAt(file, pattern, offset + 1)
    /\ StartsWithAt(file, IdAttr \o xid \o <<34>>, offset + 1 + Len(pattern))

\* Every entry of every index points at its element in file.
OffsetsOpenElements(file) ==
    \A i \in 1..Len(indexer.indices) :
        \A j \in 1..Len(indexer.indices[i].index) :
            LET item == indexer.indices[i].index[j]
            IN  OpensElementAt(file, item[2].offset,
                               indexer.indices[i].pattern, item[1])

\* C1: every offset recorded in the spectrum index and in the chromatogram
\* index is the byte position, in the bytes written through the sink and in
\* the final file, at which the opening tag of the element with that id
\* begins.
C1_OffsetsPointAtOpeningTags ==
    /\ OffsetsOpenElements(indexer.buffer)
    /\ Finished => OffsetsOpenElements(dest)

\* C1's case: a finished build of a document with two spectra and a
\* chromatogram of distinct ids, all three indexed.
C1_Witness ==
    /\ Finished
    /\ doc.spectra = <<IdB, IdA>>
    /\ doc.chromatograms = <<IdA>>
    /\ Len(indexer.indices[1].index) = 2
    /\ Len(indexer.indices[2].index) = 1

\* The position of the first byte of the text of <fileChecksum> in file, 0
\* when the file has no such element.
ChecksumValueAt(file) ==
    LET open == Search(ChecksumOpen, file)
    IN  IF open = 0 THEN 0 ELSE open + Len(ChecksumOpen)

\* C2: the digest stored in <fileChecksum> is the digest of the bytes of the
\* final file that precede it, the checksum open tag included, and the file
\* ends with the close tag of the checksum and the close tag of the root.
C2_ChecksumOfPrecedingBytes ==
    Finished =>
        LET v == ChecksumValueAt(dest)
        IN  /\ v # 0
            /\ SubSeq(dest, v, v + 39)
                   = HexDigest(ChecksumUpdate(ChecksumInit,
                                              SubSeq(dest, 1, v - 1)))
            /\ From(dest, v + 40) = ChecksumClose \o RootClose

\* C2's case: a finished build whose file holds a checksum after two
\* indexed spectra.
C2_Witness ==
    /\ Finished
    /\ ChecksumValueAt(dest) # 0
    /\ Len(indexer.indices[1].index) = 2

\* The number written in <indexListOffset> in file.
IndexListOffsetValue(file) ==
    LET open == Search(IndexListOffsetOpen, file)
    IN  ParseInt(Until(file, open + Len(IndexListOffsetOpen), 60))

\* b'<indexList'
IndexListTag ==
    <<60, 105, 110, 100, 101, 120, 76, 105, 115, 116>>
\* C3: the value of <indexListOffset> is the byte position, in the final
\* file, of the '<' that opens <indexList.
C3_IndexListOffsetAtTag ==
    Finished => StartsWithAt(dest, IndexListTag, IndexListOffsetValue(dest) + 1)

\* What the code writes instead: the position of the two spaces that indent
\* the <indexList line, two bytes before the '<'.
C3_IndexListOffsetAtIndentation ==
    Finished =>
        StartsWithAt(dest, Indent \o IndexListTag, IndexListOffsetValue(dest) + 1)

\* The indices 0, 1, ..., n - 1 in order.
CountingFrom0(n) == [i \in 1..n |-> i - 1]

\* C4: the spectra written by one writer carry the indices 0, 1, ..., N - 1
\* in call order, the chromatograms likewise, whatever calls failed between
\* them; each count is the number of records of its kind written, and no
\* call lowers a count.
C4_IndicesCountFrom0 ==
    /\ [](/\ spectrum_indices = CountingFrom0(spectrum_count)
          /\ chromatogram_indices = CountingFrom0(chromatogram_count)
          /\ record.kind = "spectrum" => record.index < spectrum_count
          /\ record.kind = "chromatogram" => record.index < chromatogram_count)
    /\ [][/\ spectrum_count' >= spectrum_count
          /\ chromatogram_count' >= chromatogram_count]_vars

\* C4's case: two spectra are written, the second with the index 1, and a
\* call made after them failed.
C4_Witness ==
    /\ spectrum_indices = <<0, 1>>
    /\ record.kind = "spectrum"
    /\ record.index = 1
    /\ raised # None

\* C5: in the record written last, the primary array carries no explicit
\* length and every other array carries its own length exactly when that
\* differs from the length of the primary array.
C5_LengthOverridePolicy ==
    record.kind # None =>
        /\ record.array_list[1].array_length = NoneInt
        /\ \A i \in 2..Len(record.array_list) :
               record.array_list[i].array_length =
                   IF record.array_list[i].length # record.default_array_length
                   THEN record.array_list[i].length
                   ELSE NoneInt

\* What the code does: the explicit length is given to the additional
\* arrays alone; the intensity and charge arrays never carry one.
C5_OverrideOfAdditionalArraysOnly ==
    record.kind # None =>
        \A i \in 1..Len(record.array_list) :
            record.array_list[i].array_length =
                IF /\ record.array_list[i].array_type \in ArrayTypeArgs
                   /\ record.array_list[i].length # record.default_array_length
                THEN record.array_list[i].length
                ELSE NoneInt

\* C6: when MemoryError is raised while embed_source buffers the rewritten
\* document, format returns (the error is swallowed) and the destination
\* holds the plain document, byte for byte; nor was the destination touched
\* at any earlier point of the build.
C6_AbortInReflowLeavesDocument ==
    /\ pc \in BuildSteps => dest = PlainDocument(doc)
    /\ (pc = "aborted" /\ failedIn \in {"embed_source", "embed_lines"})
           => dest = PlainDocument(doc)

\* C6's case: MemoryError is raised in the loop of embed_source after it
\* wrote some lines of a document with a spectrum, and format has returned.
C6_Witness ==
    /\ pc = "aborted"
    /\ failedIn = "embed_lines"
    /\ Len(written) >= 5
    /\ doc.spectra # <<>>

\* The chunks written between the open line of the index block of name and
\* the close line that follows it; none when no such block was written.
IndexBlock(name) ==
    LET opens == {i \in 1..Len(written) :
                     written[i] = IndexOpenHead \o name \o IndexOpenTail}
    IN  IF opens = {} THEN <<>>
        ELSE LET first == Min(opens)
                 last == Min({j \in (first + 1)..Len(written) :
                                  written[j] = IndexClose})
             IN  SubSeq(written, first + 1, last - 1)

\* The text of the idRef attribute of an offset line.
IdRefOf(line) == Until(line, Len(OffsetHead) + 1, 34)

\* The idRef texts of the offset lines of the index block of name, in order.
BlockIdRefs(name) ==
    LET block == IndexBlock(name)
    IN  [i \in 1..Len(block) |-> IdRefOf(block[i])]

RECURSIVE FirstSeen(_)
\* The ids of a sequence in the order of their first occurrences.
FirstSeen(ids) ==
    IF ids = <<>> THEN <<>>
    ELSE LET n == Len(ids)
             before == FirstSeen(SubSeq(ids, 1, n - 1))
         IN  IF \E i \in 1..(n - 1) : ids[i] = ids[n] THEN before
             ELSE Append(before, ids[n])

\* The idRef texts of ids as the interpreter prints them.
Printed(ids) == [i \in 1..Len(ids) |-> FormatRef(ids[i], python)]

\* C7: once the index list is written, the offset entries of each index
\* block name the ids of its elements in the order in which the elements
\* were first written, an id written again keeping its first place.
C7_BlocksInFirstSeenOrder ==
    "write_index_list" \in {stages[i] : i \in 1..Len(stages)} =>
        /\ BlockIdRefs(SpectrumName) = Printed(FirstSeen(doc.spectra))
        /\ BlockIdRefs(ChromatogramName) = Printed(FirstSeen(doc.chromatograms))

\* C7's case: the ids are written in the order scan=2, scan=1, scan=2,
\* which is not their lexical order and repeats the first, and the build is
\* finished.
C7_Witness ==
    /\ Finished
    /\ doc.spectra = <<IdB, IdA, IdB>>
    /\ BlockIdRefs(SpectrumName) = Printed(<<IdB, IdA>>)

\* Whether the chunk an index list opens with, for the count n, was written.
IndexListOpenedWith(n) ==
    \E i \in 1..Len(written) :
        written[i] = IndexListHead \o FormatInt(n) \o IndexListTail

\* Whether the open line of the index block of name was written.
BlockWritten(name) ==
    \E i \in 1..Len(written) :
        written[i] = IndexOpenHead \o name \o IndexOpenTail

\* C8: once the index list is written, its count is the number of element
\* kinds of which the document has at least one element, and the index
\* block of a kind is written exactly when the document has an element of
\* that kind.
C8_CountOfNonEmptyIndexes ==
    "write_index_list" \in {stages[i] : i \in 1..Len(stages)} =>
        /\ IndexListOpenedWith(
               (IF doc.spectra # <<>> THEN 1 ELSE 0)
               + (IF doc.chromatograms # <<>> THEN 1 ELSE 0))
        /\ BlockWritten(SpectrumName) <=> doc.spectra # <<>>
        /\ BlockWritten(ChromatogramName) <=> doc.chromatograms # <<>>
        /\ \A n \in 0..2 :
               IndexListOpenedWith(n) => n = IndexListLen(indexer.indices)

\* C8's case: a finished build of a document with spectra and no
\* chromatogram, whose index list has the count 1.
C8_Witness ==
    /\ Finished
    /\ doc.spectra # <<>>
    /\ doc.chromatograms = <<>>
    /\ IndexListOpenedWith(1)
    /\ ~BlockWritten(ChromatogramName)

RECURSIVE DigestOfRange(_, _, _, _)
\* The running digest h after the bytes data[lo..hi] are folded in, first to
\* last (by halves, as ChecksumUpdate, with no copy of the bytes).
DigestOfRange(h, data, lo, hi) ==
    IF h < 0 \/ lo > hi THEN h
    ELSE IF lo = hi THEN ChecksumStep(h, data[lo])
    ELSE LET mid == (lo + hi) \div 2
         IN  DigestOfRange(DigestOfRange(h, data, lo, mid), data, mid + 1, hi)

\* The digest of a new sink that was given all of data.
DigestOf(data) == DigestOfRange(ChecksumInit, data, 1, Len(data))

\* C9: after any writes, the byte counter is the length of the retained
\* buffer, the buffer is the written chunks joined in call order, and the
\* value the last write returned is the counter; the digest of a sink with
\* nothing written is the initial one and every step folds into it exactly
\* the bytes it appends to the buffer, in their order, so that the digest is
\* always the digest of the buffer (computed anew from the whole buffer
\* where format ends); and the writes of a step return the counter they
\* leave, the counter before plus the number of bytes appended.
C9_SinkAccountsForEveryByte ==
    /\ [](/\ indexer.accumulator = Len(indexer.buffer)
          /\ indexer.buffer = Concat(written)
          /\ ret = indexer.accumulator
          /\ indexer.buffer = <<>> => indexer.checksum = ChecksumInit
          /\ pc \in {"done", "raised"} =>
                 indexer.checksum = DigestOf(indexer.buffer))
    /\ [][/\ Len(indexer'.buffer) >= Len(indexer.buffer)
          /\ SubSeq(indexer'.buffer, 1, Len(indexer.buffer)) = indexer.buffer
          /\ indexer'.checksum =
                 DigestOfRange(indexer.checksum, indexer'.buffer,
                               Len(indexer.buffer) + 1, Len(indexer'.buffer))
          /\ ret' = indexer.accumulator
                        + (Len(indexer'.buffer) - Len(indexer.buffer))]_vars

\* C9's case: several chunks are written, among them lines of the document.
C9_Witness ==
    /\ pc = "embed_lines"
    /\ Len(written) >= 4
    /\ indexer.accumulator > Len(Header)

\* The stages of one build, in their order.
StageOrder ==
    << "write_opening", "embed_source", "write_index_list", "write_checksum",
       "write_closing", "overwrite" >>

\* C10: the stages completed are always the first ones of the fixed order,
\* each once; a finished build completed them all; the destination holds the
\* plain document until the root close tag is in the sink and overwrite has
\* begun; and the finished file starts, at its position 0, with the whole
\* buffer of the sink.
C10_StagesInOrder ==
    /\ Len(stages) <= Len(StageOrder)
    /\ stages = SubSeq(StageOrder, 1, Len(stages))
    /\ Finished => stages = StageOrder
    /\ dest # PlainDocument(doc) =>
           /\ SubSeq(stages, 1, 5) = SubSeq(StageOrder, 1, 5)
           /\ written[Len(written)] = RootClose
           /\ pc \in {"overwrite_write", "done", "aborted"}
    /\ Finished =>
           SubSeq(dest, 1, Len(indexer.buffer)) = indexer.buffer

\* C10's case: a finished build of a document with a spectrum, the file
\* being the buffer that ends with the root close tag.
C10_Witness ==
    /\ Finished
    /\ doc.spectra # <<>>
    /\ dest = indexer.buffer
    /\ written[Len(written)] = RootClose

\* The exceptions of an array-encoding step: encoding_map[_encoding] of an
\* unknown width, and an additional array with no type.
EncodingErrors == {"KeyError", "ValueError"}

\* C11: a write_spectrum or write_chromatogram call that fails in an
\* array-encoding step (an unknown encoding width, an additional array with
\* no type) still advances the counter of its kind by exactly one.
C11_FailedEncodingAdvancesCounter ==
    [][raised' \in EncodingErrors =>
           spectrum_count' + chromatogram_count'
               = spectrum_count + chromatogram_count + 1]_vars

\* What the code does: the count is read and advanced after every array is
\* prepared, so a call that fails there leaves both counts, and the record
\* written last, as they were.
C11_FailedCallKeepsCounts ==
    [][raised' # None =>
           /\ spectrum_count' = spectrum_count
           /\ chromatogram_count' = chromatogram_count
           /\ record' = record]_vars

\* The id attribute of a chunk, as scan reads it.
ChunkId(data) == DictGet(DictOf(AttrFindAll(data, 1)), IdKey)

\* The indexers whose pattern is found in a chunk.
Matching(data) ==
    {i \in 1..Len(indexer.indices) :
        Search(indexer.indices[i].pattern, data) # 0}

\* C12: every chunk written is offered to every indexer, whether or not an
\* earlier indexer matched: a chunk holds an entry in the index of each
\* indexer whose pattern it matches.
C12_ChunkOfferedToEveryIndexer ==
    \A k \in 1..Len(written) :
        \A i \in Matching(written[k]) :
            DictHas(indexer.indices[i].index, ChunkId(written[k]))

\* What the code does: test returns at the first indexer that matches, so a
\* chunk is recorded by the first indexer whose pattern it matches and the
\* later indexers hold entries only of chunks no earlier indexer matched.
C12_ChunkRecordedByFirstMatch ==
    /\ \A k \in 1..Len(written) :
           Matching(written[k]) # {} =>
               DictHas(indexer.indices[Min(Matching(written[k]))].index,
                       ChunkId(written[k]))
    /\ \A i \in 1..Len(indexer.indices) :
           \A e \in 1..Len(indexer.indices[i].index) :
               \E k \in 1..Len(written) :
                   /\ Matching(written[k]) # {}
                   /\ Min(Matching(written[k])) = i
                   /\ ChunkId(written[k]) = indexer.indices[i].index[e][1]

\* The record written last holds an array with no type.
HoldsUntypedArray ==
    \E i \in 1..Len(record.array_list) : record.array_list[i].array_type = None

\* C13: an additional array whose type is None makes write_spectrum and
\* write_chromatogram fail, so no record written, of either kind, holds an
\* array with no type.
C13_UntypedArrayIsFatal ==
    record.kind # None => ~HoldsUntypedArray

\* What the code does: write_spectrum alone tests array_type is None; and
\* write_chromatogram writes the record, the untyped array carrying the
\* compression and the encoding as its only parameters.
C13_UntypedArrayIsFatalInSpectrum ==
    /\ record.kind = "spectrum" => ~HoldsUntypedArray
    /\ record.kind = "chromatogram" =>
           \A i \in 1..Len(record.array_list) :
               record.array_list[i].array_type = None =>
                   Len(record.array_list[i].params) = 2

\* A chunk that matches the pattern of an indexer and holds no id attribute.
MissingId(data) ==
    /\ Matching(data) # {}
    /\ ~DictHas(DictOf(AttrFindAll(data, 1)), IdKey)

\* C14: the write of a chunk that matches the pattern of an indexer and
\* holds no id attribute raises, and format does not swallow the exception
\* (it ends raised, not returned); the failed write adds no entry to an
\* index and leaves the buffer, the byte count and the digest of the sink as
\* they were, and the destination still holds the plain document.
C14_MissingIdFailsAndChangesNothing ==
    /\ [](pc = "raised" =>
              /\ failedIn = "embed_lines"
              /\ dest = PlainDocument(doc)
              /\ indexer.buffer = Concat(written)
              /\ indexer.accumulator = Len(indexer.buffer)
              /\ indexer.checksum = ChecksumUpdate(ChecksumInit, indexer.buffer)
              /\ \A k \in 1..Len(written) : ~MissingId(written[k]))
    /\ [][/\ (pc = "embed_lines" /\ MissingId(Indented(Head(content))))
                 => pc' \in {"raised", "aborted"}
          /\ pc' = "raised" =>
                 /\ MissingId(Indented(Head(content)))
                 /\ indexer' = indexer
                 /\ written' = written
                 /\ ret' = ret
                 /\ dest' = dest]_vars

\* C14's case: format wrote a spectrum with an id, then the line of a
\* record with no id, and ended with the exception of that write.
C14_Witness ==
    /\ pc = "raised"
    /\ failedIn = "embed_lines"
    /\ Len(indexer.indices[1].index) > 0
    /\ \E i \in 1..Len(doc.spectra) : doc.spectra[i] = NoId
    /\ indexer.accumulator > Len(Header)

\* The params the caller gave, as a list.
GivenParams == IF args.params.type = "NoneType" THEN <<>> ELSE args.params.items

\* A number (an int or a float) whose sign is that of s.
NumberOfSign(p, s) == p.type \in {"int", "float"} /\ p.value * s > 0

\* The text p holds t.
TextHolding(p, t) == p.type = "str" /\ Search(t, p.chars) # 0

\* The marker C15 gives an input polarity, None for no marker.
MarkerOf(p) ==
    IF NumberOfSign(p, 1) \/ TextHolding(p, PositiveText) THEN POSITIVE_SCAN
    ELSE IF NumberOfSign(p, -1) \/ TextHolding(p, NegativeText)
    THEN NEGATIVE_SCAN
    ELSE None

\* The params of a record that was given the marker m: the caller's,
\* then m unless it is None or among them, then the peak mode.
MarkedParams(m) ==
    /\ Len(record.params) >= 1
    /\ record.params[Len(record.params)]
           \in {"centroid spectrum", "profile spectrum"}
    /\ SubSeq(record.params, 1, Len(record.params) - 1) =
           IF m = None \/ InList(m, GivenParams) THEN GivenParams
           ELSE Append(GivenParams, m)

\* C15: whatever polarity write_spectrum is given, the call proceeds and
\* the record's params are the caller's followed by the positive-scan
\* marker for a positive number or a text holding "positive", by the
\* negative-scan marker for a negative number or a text holding "negative",
\* and by no marker for zero or any other input; a marker the caller's
\* params already hold is not added again.
C15_PolarityNormalised ==
    args.kind = "spectrum" =>
        /\ raised = None
        /\ MarkedParams(MarkerOf(args.polarity))

\* What the code does: the claim holds of an int, a text and None, and a
\* float polarity, whatever its sign, ends the call with TypeError.
C15_PolarityOfIntAndTextNormalised ==
    args.kind = "spectrum" =>
        IF args.polarity.type = "float"
        THEN raised = "TypeError"
        ELSE /\ raised = None
             /\ MarkedParams(MarkerOf(args.polarity))
====
